---- MODULE Spec2Model ----
(***************************************************************************)
(* A model of app.py: the PDF -> CSV conversion pipeline.                  *)
(*                                                                         *)
(* Text (str) is modelled as a sequence of one-character strings, so that  *)
(* strip, the whitespace collapse, str.replace, str.lower and the          *)
(* substring test act on characters as the Python code does.               *)
(***************************************************************************)
EXTENDS Naturals, Sequences, FiniteSets

----------------------------------------------------------------------------
(* Characters and text helpers                                             *)

\* The characters Python's str.strip() and the regex class \s remove.
Whitespace == {" ", "\t"}

UpperChars == <<"A","B","C","D","E","F","G","H","I","J","K","L","M",
                "N","O","P","Q","R","S","T","U","V","W","X","Y","Z">>
LowerChars == <<"a","b","c","d","e","f","g","h","i","j","k","l","m",
                "n","o","p","q","r","s","t","u","v","w","x","y","z">>

Digits == <<"0","1","2","3","4","5","6","7","8","9">>

\* str.lower() of one character
LowerChar(c) ==
    IF \E i \in 1..Len(UpperChars) : UpperChars[i] = c
    THEN LowerChars[CHOOSE i \in 1..Len(UpperChars) : UpperChars[i] = c]
    ELSE c

\* str.lower()
lower(s) == [i \in 1..Len(s) |-> LowerChar(s[i])]

\* s[i:].startswith(p), 1-based
StartsAt(s, i, p) ==
    /\ i + Len(p) - 1 <= Len(s)
    /\ SubSeq(s, i, i + Len(p) - 1) = p

\* p in s
Contains(s, p) == \E i \in 1..(Len(s) + 1) : StartsAt(s, i, p)

\* s.endswith(p)
EndsWith(s, p) == Len(p) <= Len(s) /\ StartsAt(s, Len(s) - Len(p) + 1, p)

RECURSIVE ReplaceFrom(_, _, _, _)
ReplaceFrom(s, i, old, new) ==
    IF i > Len(s) THEN <<>>
    ELSE IF StartsAt(s, i, old)
         THEN new \o ReplaceFrom(s, i + Len(old), old, new)
         ELSE <<s[i]>> \o ReplaceFrom(s, i + 1, old, new)

\* str.replace(old, new) for a non-empty old: every non-overlapping
\* occurrence, found left to right, in one pass over the original text
Replace(s, old, new) == ReplaceFrom(s, 1, old, new)

RECURSIVE LStrip(_)
LStrip(s) ==
    IF s # <<>> /\ Head(s) \in Whitespace THEN LStrip(Tail(s)) ELSE s

RECURSIVE RStrip(_)
RStrip(s) ==
    IF s # <<>> /\ s[Len(s)] \in Whitespace
    THEN RStrip(SubSeq(s, 1, Len(s) - 1))
    ELSE s

\* str.strip()
strip(s) == RStrip(LStrip(s))

RECURSIVE CollapseFrom(_, _)
CollapseFrom(s, i) ==
    IF i > Len(s) THEN <<>>
    ELSE IF s[i] \in Whitespace
         THEN IF i > 1 /\ s[i - 1] \in Whitespace
              THEN CollapseFrom(s, i + 1)
              ELSE <<" ">> \o CollapseFrom(s, i + 1)
         ELSE <<s[i]>> \o CollapseFrom(s, i + 1)

\* re.sub(r"\s+", " ", s): every maximal run of whitespace becomes one space
CollapseWs(s) == CollapseFrom(s, 1)

\* Flatten a sequence of texts into one text
RECURSIVE Join(_)
Join(ss) == IF ss = <<>> THEN <<>> ELSE Head(ss) \o Join(Tail(ss))

----------------------------------------------------------------------------
(* Words of the program and of the inputs                                  *)

sPrvDot    == <<"P","r","v",".">>
sPrev      == <<"P","r","e","v">>
sLast      == <<"L","a","s","t">>
sRate      == <<"R","a","t","e">>
sOpen      == <<"O","p","e","n">>
sSpace     == <<" ">>
sLastRate  == sLast \o sSpace \o sRate
sOpenRate  == sOpen \o sSpace \o sRate
sCompany   == <<"C","o","m","p","a","n","y">>
sCompanyName == sCompany \o sSpace \o <<"N","a","m","e">>
sTurnover  == <<"T","u","r","n","o","v","e","r">>
sPrvRate   == sPrvDot \o sRate
sHighest   == <<"H","i","g","h","e","s","t">>
sLowest    == <<"L","o","w","e","s","t">>
sDiff      == <<"D","i","f","f">>
sDate      == <<"D","a","t","e">>
sDotPdf    == <<".","p","d","f">>
sDotCsv    == <<".","c","s","v">>

----------------------------------------------------------------------------
(* normalize                                                               *)

\* normalize(col), for a col that is already text (str(col) of an integer
\* column label is IntStr below)
normalize(c) ==
    Replace(Replace(Replace(CollapseWs(strip(c)),
        sPrvDot, sPrev), sLastRate, sLast), sOpenRate, sOpen)

----------------------------------------------------------------------------
(* extract_date_from_filename                                              *)

IsDigit(c) == \E i \in 1..Len(Digits) : Digits[i] = c
DigitVal(c) == (CHOOSE i \in 1..Len(Digits) : Digits[i] = c) - 1

RECURSIVE NumVal(_)
NumVal(s) ==
    IF s = <<>> THEN 0
    ELSE 10 * NumVal(SubSeq(s, 1, Len(s) - 1)) + DigitVal(s[Len(s)])

\* str(n) for a non-negative integer
RECURSIVE IntStr(_)
IntStr(n) ==
    IF n < 10 THEN <<Digits[n + 1]>>
    ELSE IntStr(n \div 10) \o <<Digits[(n % 10) + 1]>>

\* os.path.splitext(fname)[0]: cut at the last dot, unless the name has no
\* dot after its leading dots
SplitextStem(fname) ==
    LET dots == {i \in 1..Len(fname) :
                    /\ fname[i] = "."
                    /\ \E j \in 1..(i - 1) : fname[j] # "."}
    IN IF dots = {} THEN fname
       ELSE SubSeq(fname, 1, (CHOOSE i \in dots : \A j \in dots : j <= i) - 1)

IsLeap(y) == (y % 4 = 0 /\ y % 100 # 0) \/ y % 400 = 0

DaysInMonth(y, m) ==
    IF m = 2 THEN (IF IsLeap(y) THEN 29 ELSE 28)
    ELSE IF m \in {4, 6, 9, 11} THEN 30 ELSE 31

Pad2(n) == IF n < 10 THEN <<"0">> \o IntStr(n) ELSE IntStr(n)

\* "no date"
NoDate == <<>>

\* A datetime.date value: not text, marked by its type and shown by its
\* ISO form
DateValue(y, m, d) ==
    <<"datetime.date">> \o SubSeq(<<"0","0","0">> \o IntStr(y),
                                   Len(IntStr(y)), Len(IntStr(y)) + 3)
        \o <<"-">> \o Pad2(m) \o <<"-">> \o Pad2(d)

\* datetime.strptime(stem, "%Y-%m-%d").date(), None on ValueError:
\* %Y is four digits, %m and %d one or two digits, then the calendar check
StrptimeYmd(stem) ==
    LET dashes == {i \in 1..Len(stem) : stem[i] = "-"}
    IN IF Cardinality(dashes) # 2 THEN NoDate
       ELSE
         LET d1 == CHOOSE i \in dashes : \A j \in dashes : i <= j
             d2 == CHOOSE i \in dashes : \A j \in dashes : j <= i
             ys == SubSeq(stem, 1, d1 - 1)
             ms == SubSeq(stem, d1 + 1, d2 - 1)
             ds == SubSeq(stem, d2 + 1, Len(stem))
             AllDigits(s) == \A i \in 1..Len(s) : IsDigit(s[i])
         IN IF /\ Len(ys) = 4 /\ Len(ms) \in {1, 2} /\ Len(ds) \in {1, 2}
               /\ AllDigits(ys) /\ AllDigits(ms) /\ AllDigits(ds)
               /\ NumVal(ys) >= 1
               /\ NumVal(ms) \in 1..12
               /\ NumVal(ds) \in 1..DaysInMonth(NumVal(ys), NumVal(ms))
            THEN DateValue(NumVal(ys), NumVal(ms), NumVal(ds))
            ELSE NoDate

extract_date_from_filename(fname) == StrptimeYmd(SplitextStem(fname))

----------------------------------------------------------------------------
(* Values of a table cell                                                  *)

\* pandas' two null values: pd.NA (written by the blank replacement) and
\* NaN (written by pd.concat where a narrower table has no column)
pdNA == <<"pd.NA">>
npNaN == <<"nan (float)">>

\* notna() is False exactly for these
IsNull(x) == x \in {pdNA, npNaN}

\* isinstance(x, str)
IsStr(x) == ~IsNull(x) /\ (x = <<>> \/ x[1] # "datetime.date")

\* str(x), as Series.astype(str) writes it
CellStr(x) ==
    IF x = pdNA THEN <<"<","N","A",">">>
    ELSE IF x = npNaN THEN <<"n","a","n">>
    ELSE x

\* re.match(r"^\s*$", x)
IsBlank(x) == \A i \in 1..Len(x) : x[i] \in Whitespace

----------------------------------------------------------------------------
(* DataFrame operations used by process_pdfs                               *)
(*                                                                         *)
(* A camelot table is [ncols, rows]: t.df has the integer column labels    *)
(* 0..ncols-1 and t.shape[0] = Len(rows).  A DataFrame is                  *)
(* [intcols, cols, index, rows]: intcols says whether the column labels    *)
(* are still the integers of camelot (cols then holds numbers) or text,    *)
(* index holds the row labels.                                             *)

Range0(n) == [i \in 1..n |-> i - 1]

RECURSIVE SumShape0(_)
\* sum(t.shape[0] for t in tbls)
SumShape0(tbls) ==
    IF tbls = <<>> THEN 0 ELSE Len(Head(tbls).rows) + SumShape0(Tail(tbls))

RECURSIVE MaxNcols(_)
MaxNcols(tbls) ==
    IF tbls = <<>> THEN 0
    ELSE LET m == MaxNcols(Tail(tbls))
         IN IF Head(tbls).ncols > m THEN Head(tbls).ncols ELSE m

RECURSIVE ConcatRows(_, _)
ConcatRows(tbls, w) ==
    IF tbls = <<>> THEN <<>>
    ELSE [i \in 1..Len(Head(tbls).rows) |->
             [j \in 1..w |-> IF j <= Head(tbls).ncols
                             THEN Head(tbls).rows[i][j] ELSE npNaN]]
         \o ConcatRows(Tail(tbls), w)

\* pd.concat([t.df for t in tables], ignore_index=True): the rows of every
\* table in order, the columns the union of the tables' integer labels,
\* NaN where a table has no such column, the index renumbered
ConcatTables(tbls) ==
    LET w == MaxNcols(tbls)
        rs == ConcatRows(tbls, w)
    IN [intcols |-> TRUE, cols |-> Range0(w),
        index |-> Range0(Len(rs)), rows |-> rs]

\* pdf_df.replace(r"^\s*$", pd.NA, regex=True)
ReplaceBlank(df) ==
    [df EXCEPT !.rows =
        [i \in 1..Len(df.rows) |->
            [j \in 1..Len(df.cols) |->
                IF IsStr(df.rows[i][j]) /\ IsBlank(df.rows[i][j])
                THEN pdNA ELSE df.rows[i][j]]]]

\* The subsequence of s at the positions in keep, from position i on
RECURSIVE Pick(_, _, _)
Pick(s, i, keep) ==
    IF i > Len(s) THEN <<>>
    ELSE (IF i \in keep THEN <<s[i]>> ELSE <<>>) \o Pick(s, i + 1, keep)

\* pdf_df.dropna(how="all", axis=0)
DropNaRows(df) ==
    LET keep == {i \in 1..Len(df.rows) :
                    \E j \in 1..Len(df.cols) : ~IsNull(df.rows[i][j])}
    IN [df EXCEPT !.rows = Pick(df.rows, 1, keep),
                  !.index = Pick(df.index, 1, keep)]

\* pdf_df.dropna(how="all", axis=1)
DropNaCols(df) ==
    LET keep == {j \in 1..Len(df.cols) :
                    \E i \in 1..Len(df.rows) : ~IsNull(df.rows[i][j])}
    IN [df EXCEPT !.cols = Pick(df.cols, 1, keep),
                  !.rows = [i \in 1..Len(df.rows) |->
                               Pick(df.rows[i], 1, keep)]]

\* pdf_df.empty
IsEmpty(df) == Len(df.rows) = 0 \/ Len(df.cols) = 0

header_candidates ==
    <<sCompany, sCompanyName, sTurnover, sPrvRate, sOpen, sHighest,
      sLowest, sLast, sRate, sDiff>>

\* any(any(isinstance(x, str) and hc.lower() in x.lower()
\*         for x in pdf_df.iloc[0].tolist()) for hc in header_candidates)
LooksLikeHeader(row) ==
    \E h \in 1..Len(header_candidates) :
        \E j \in 1..Len(row) :
            IsStr(row[j]) /\ Contains(lower(row[j]), lower(header_candidates[h]))

\* Lines 87-89: the first row becomes the column labels and leaves the data
PromoteHeader(df) ==
    IF ~IsEmpty(df) /\ LooksLikeHeader(df.rows[1])
    THEN [intcols |-> FALSE,
          cols |-> [j \in 1..Len(df.cols) |-> strip(CellStr(df.rows[1][j]))],
          index |-> Range0(Len(df.rows) - 1),
          rows |-> Tail(df.rows)]
    ELSE df

\* pdf_df.columns = [normalize(c) for c in pdf_df.columns]
NormalizeColumns(df) ==
    [df EXCEPT !.intcols = FALSE,
               !.cols = [j \in 1..Len(df.cols) |->
                            IF df.intcols THEN normalize(IntStr(df.cols[j]))
                            ELSE normalize(df.cols[j])]]

\* pdf_df.insert(0, "Date", date_val) raises ValueError when a column
\* named Date is already there (allow_duplicates is False)
InsertRaises(df) == \E j \in 1..Len(df.cols) : df.cols[j] = sDate

InsertDate(df, date_val) ==
    [df EXCEPT !.cols = <<sDate>> \o df.cols,
               !.rows = [i \in 1..Len(df.rows) |-> <<date_val>> \o df.rows[i]]]

\* The least number of non-null cells of a row that goes to the master
MinNotNa == 3

\* pdf_df.notna().sum(axis=1), for row i
NotNaCount(df, i) == Cardinality({j \in 1..Len(df.cols) : ~IsNull(df.rows[i][j])})

\* Line 103 with > for >=
MaskDataAbove(df) == {i \in 1..Len(df.rows) : NotNaCount(df, i) > MinNotNa}

\* pdf_df[mask_data] with mask_data = pdf_df.notna().sum(axis=1) >= 3:
\* the qualifying rows, each under its own index label
MaskData(df) == {i \in 1..Len(df.rows) : NotNaCount(df, i) >= MinNotNa}

FilterRows(df) ==
    [df EXCEPT !.rows = Pick(df.rows, 1, MaskData(df)),
               !.index = Pick(df.index, 1, MaskData(df))]

HasDuplicates(cols) ==
    \E i, j \in 1..Len(cols) : i < j /\ cols[i] = cols[j]

RECURSIVE UnionCols(_, _)
\* The labels of the frames in order of first appearance
UnionCols(frames, acc) ==
    IF frames = <<>> THEN acc
    ELSE LET c == Head(frames).cols
             new == {j \in 1..Len(c) :
                        /\ \A k \in 1..Len(acc) : acc[k] # c[j]
                        /\ \A k \in 1..(j - 1) : c[k] # c[j]}
         IN UnionCols(Tail(frames), acc \o Pick(c, 1, new))

\* One frame's rows under the labels cols: NaN where it has no such column
Realign(df, cols) ==
    [i \in 1..Len(df.rows) |->
        [k \in 1..Len(cols) |->
            IF \E j \in 1..Len(df.cols) : df.cols[j] = cols[k]
            THEN df.rows[i][CHOOSE j \in 1..Len(df.cols) : df.cols[j] = cols[k]]
            ELSE npNaN]]

RECURSIVE RealignAll(_, _)
RealignAll(frames, cols) ==
    IF frames = <<>> THEN <<>>
    ELSE Realign(Head(frames), cols) \o RealignAll(Tail(frames), cols)

RECURSIVE AllRowsOf(_)
AllRowsOf(frames) ==
    IF frames = <<>> THEN <<>>
    ELSE Head(frames).rows \o AllRowsOf(Tail(frames))

SameCols(frames) == \A i \in 1..Len(frames) : frames[i].cols = frames[1].cols

\* pd.concat(all_rows, ignore_index=True) reindexes every frame to the union
\* of the column labels unless all frames carry equal labels, and a frame
\* with a repeated label cannot be reindexed (InvalidIndexError)
ConcatRaises(frames) ==
    /\ ~SameCols(frames)
    /\ \E i \in 1..Len(frames) : HasDuplicates(frames[i].cols)

ConcatFrames(frames) ==
    IF SameCols(frames)
    THEN [intcols |-> FALSE, cols |-> frames[1].cols,
          index |-> Range0(Len(AllRowsOf(frames))),
          rows |-> AllRowsOf(frames)]
    ELSE LET u == UnionCols(frames, <<>>)
             rs == RealignAll(frames, u)
         IN [intcols |-> FALSE, cols |-> u,
             index |-> Range0(Len(rs)), rows |-> rs]

----------------------------------------------------------------------------
(* sorted(...) of file names                                               *)

\* The characters of the file names, in code point order
CodeOrder == <<"-", ".">> \o Digits \o UpperChars \o LowerChars

Ord(c) == CHOOSE i \in 1..Len(CodeOrder) : CodeOrder[i] = c

\* a < b for str
StrLess(a, b) ==
    \E k \in 1..(Len(b)) :
        /\ k <= Len(a) + 1
        /\ \A i \in 1..(k - 1) : a[i] = b[i]
        /\ (k = Len(a) + 1 \/ Ord(a[k]) < Ord(b[k]))

RECURSIVE Sorted(_)
Sorted(S) ==
    IF S = {} THEN <<>>
    ELSE LET m == CHOOSE x \in S : \A y \in S \ {x} : StrLess(x, y)
         IN <<m>> \o Sorted(S \ {m})

\* f.lower().endswith(".pdf")
IsPdfName(f) == EndsWith(lower(f), sDotPdf)

----------------------------------------------------------------------------
(* The inputs: the directory, the flavor list, what camelot returns        *)

\* The most entries a listed directory holds
MaxFiles == 2

fDay2    == <<"2","0","2","4","-","0","1","-","0","2">> \o sDotPdf
fDay3    == <<"2","0","2","4","-","0","1","-","0","3">> \o sDotPdf
fUpper   == <<"n",".","P","D","F">>
fText    == <<"x",".","t","x","t">>

FileNames == {fDay2, fDay3, fUpper, fText}

\* The multiselect offers each flavor once, in the order chosen
FlavorLists ==
    {<<>>, <<"lattice">>, <<"stream">>,
     <<"lattice", "stream">>, <<"stream", "lattice">>}

cEmpty == <<>>
cBlank == <<" ", "\t">>
cA     == <<"a">>
cB     == <<"b">>
c1     == <<"1">>
c2     == <<"2">>

\* A sheet with its header row; its rows hold 3, 2 and 1 filled cells
tSheet ==
    [ncols |-> 3,
     rows |-> << <<sCompany, sRate, <<" ">> \o sOpen>>,
                 <<cA, c1, c2>>,
                 <<cB, cEmpty, c2>>,
                 <<cEmpty, cBlank, cA>> >>]

\* A sheet that has a Date column of its own
tDated ==
    [ncols |-> 3,
     rows |-> << <<sDate, sCompany, sRate>>, <<c1, cA, c2>> >>]

\* A sheet whose labels Last Rate and Last both normalize to Last
tTwice ==
    [ncols |-> 3,
     rows |-> << <<sLastRate, sLast, sCompany>>, <<c1, c2, cA>> >>]

\* Rows without a header row
tBare ==
    [ncols |-> 3,
     rows |-> << <<cA, c1, c2>>, <<cB, c1, cEmpty>> >>]

\* A narrower continuation
tCont == [ncols |-> 2, rows |-> << <<cB, c2>> >>]

\* Rows were detected, none holds text
tBlank == [ncols |-> 2, rows |-> << <<cEmpty, cBlank>>, <<cBlank, cEmpty>> >>]

\* A table of no rows
tZero == [ncols |-> 2, rows |-> <<>>]

\* The TableLists camelot.read_pdf may return
TableLists ==
    {<<>>, <<tZero>>, <<tBlank>>, <<tSheet>>, <<tDated>>, <<tTwice>>,
     <<tBare>>, <<tSheet, tCont>>}

Exceptions == {"E1", "E2"}

\* What one call of camelot.read_pdf does: it raises exc or returns tbls
Outcomes ==
    {[exc |-> e, tbls |-> <<>>] : e \in Exceptions}
    \cup {[exc |-> "None", tbls |-> t] : t \in TableLists}

----------------------------------------------------------------------------
(* State                                                                   *)

VARIABLES
    listing,      \* os.listdir(pdf_dir)
    flavors,      \* the flavor list handed to process_pdfs
    pc,           \* where process_pdfs stands
    pdf_files,    \* the sorted PDF names
    idx,          \* the for loop's position in pdf_files (0 before it)
    date_val,     \* of the current file; NoDate for None
    tried,        \* read_pdf_tables: the flavors of the list already tried
    last_exc,     \* read_pdf_tables: last_exc; "None" for None
    calls,        \* history: the calls of camelot.read_pdf for this file
    tables,       \* what read_pdf_tables returned
    used_flavor,
    csv_files,    \* the to_csv writes of per-PDF files, in order
    all_rows,     \* each entry: the frame, and the file it came from
    logs,
    master_df,    \* <<>> for None, else <<frame>>
    master_csv,   \* the master file: <<>> while not written
    raised,       \* the exception that left process_pdfs; "None" if none
    fn_pc,        \* the pure-function runs: stage
    fn_in,        \*   the input
    fn_once,      \*   the function applied once
    fn_twice      \*   the function applied to that result

pipeline_vars ==
    <<listing, flavors, pc, pdf_files, idx, date_val, tried, last_exc, calls,
      tables, used_flavor, csv_files, all_rows, logs, master_df, master_csv,
      raised>>

fn_vars == <<fn_pc, fn_in, fn_once, fn_twice>>

vars == <<pipeline_vars, fn_vars>>

LogEntry(level, fname, what, exc, rows, flavor) ==
    [level |-> level, fname |-> fname, what |-> what, exc |-> exc,
     rows |-> rows, flavor |-> flavor]

FnIdle ==
    /\ fn_pc = "idle"
    /\ fn_in = <<>>
    /\ fn_once = <<>>
    /\ fn_twice = <<>>

\* process_pdfs is entered: logs = []
Init ==
    /\ listing \in {S \in SUBSET FileNames : Cardinality(S) <= MaxFiles}
    /\ flavors \in FlavorLists
    /\ pc = "start"
    /\ pdf_files = <<>>
    /\ idx = 0
    /\ date_val = NoDate
    /\ tried = 0
    /\ last_exc = "None"
    /\ calls = <<>>
    /\ tables = <<>>
    /\ used_flavor = "None"
    /\ csv_files = <<>>
    /\ all_rows = <<>>
    /\ logs = <<>>
    /\ master_df = <<>>
    /\ master_csv = <<>>
    /\ raised = "None"
    /\ FnIdle

----------------------------------------------------------------------------
(* process_pdfs and read_pdf_tables                                        *)

\* Line 44 without the sum: any table at all counts
HasRowsAnyTable(tbls) == tbls # <<>>

\* Line 44: tbls and sum(t.shape[0] for t in tbls) > 0
HasRows(tbls) == tbls # <<>> /\ SumShape0(tbls) > 0

\* Lines 78-83: the merged table, cleaned
CleanFrame(tbls) == DropNaCols(DropNaRows(ReplaceBlank(ConcatTables(tbls))))

\* Lines 78-92: the file's table, up to the normalized column names
BuildFrame(tbls) == NormalizeColumns(PromoteHeader(CleanFrame(tbls)))

\* Lines 94-96
Stamped(df, d) == IF d # NoDate THEN InsertDate(df, d) ELSE df

\* Line 99, without the directory: fname.replace(".pdf", ".csv")
OutCsv(fname) == Replace(fname, sDotPdf, sDotCsv)

\* Lines 54-62: the sorted PDF names; no PDF ends the run with one warning
ListDir ==
    /\ pc = "start"
    /\ pdf_files' = Sorted({f \in listing : IsPdfName(f)})
    /\ IF pdf_files' = <<>>
       THEN /\ logs' = Append(logs, LogEntry("warn", <<>>, "No PDFs found",
                                              "None", 0, "None"))
            /\ pc' = "done"
       ELSE /\ logs' = logs
            /\ pc' = "loop"
    /\ UNCHANGED <<listing, flavors, idx, date_val, tried, last_exc, calls,
                   tables, used_flavor, csv_files, all_rows, master_df,
                   master_csv, raised, fn_vars>>

\* Lines 64-66 and 40: the next file, its date, read_pdf_tables is entered
NextFile ==
    /\ pc = "loop"
    /\ idx < Len(pdf_files)
    /\ idx' = idx + 1
    /\ date_val' = extract_date_from_filename(pdf_files[idx + 1])
    /\ tried' = 0
    /\ last_exc' = "None"
    /\ calls' = <<>>
    /\ tables' = <<>>
    /\ used_flavor' = "None"
    /\ pc' = "read"
    /\ UNCHANGED <<listing, flavors, pdf_files, csv_files, all_rows, logs,
                   master_df, master_csv, raised, fn_vars>>

\* Lines 42-48 with `if last_exc is None: last_exc = e`: the first
\* exception is kept
FlavorTurnKeepsFirst(le, out) ==
    IF out.exc # "None"
    THEN [last_exc |-> IF le = "None" THEN out.exc ELSE le, returns |-> FALSE]
    ELSE IF HasRows(out.tbls) THEN [last_exc |-> le, returns |-> TRUE]
    ELSE [last_exc |-> le, returns |-> FALSE]

\* Lines 42-48 with last_exc reset by a call that returns
FlavorTurnForgets(le, out) ==
    IF out.exc # "None" THEN [last_exc |-> out.exc, returns |-> FALSE]
    ELSE IF HasRows(out.tbls) THEN [last_exc |-> "None", returns |-> TRUE]
    ELSE [last_exc |-> "None", returns |-> FALSE]

\* Lines 42-48, one turn of the loop over the flavors, given last_exc and
\* what the call did: the new last_exc, and whether the function returns
\* this call's tables
FlavorTurn(le, out) ==
    IF out.exc # "None" THEN [last_exc |-> out.exc, returns |-> FALSE]
    ELSE IF HasRows(out.tbls) THEN [last_exc |-> le, returns |-> TRUE]
    ELSE [last_exc |-> le, returns |-> FALSE]

\* Lines 41-48: the next flavor of the list is tried
TryFlavor ==
    /\ pc = "read"
    /\ tried < Len(flavors)
    /\ \E out \in Outcomes :
        LET turn == FlavorTurn(last_exc, out)
        IN /\ calls' = Append(calls, [flv |-> flavors[tried + 1], out |-> out])
           /\ last_exc' = turn.last_exc
           /\ IF turn.returns
              THEN /\ tables' = out.tbls
                   /\ used_flavor' = flavors[tried + 1]
                   /\ pc' = "build"
                   /\ UNCHANGED tried
              ELSE /\ tried' = tried + 1
                   /\ UNCHANGED <<tables, used_flavor, pc>>
    /\ UNCHANGED <<listing, flavors, pdf_files, idx, date_val, csv_files,
                   all_rows, logs, master_df, master_csv, raised, fn_vars>>

\* Lines 49-51 and 70-76: no flavor gave rows; the file is skipped
NoRows ==
    /\ pc = "read"
    /\ tried = Len(flavors)
    /\ logs' = Append(logs,
          IF last_exc # "None"
          THEN LogEntry("warn", pdf_files[idx], "error reading", last_exc,
                        0, "None")
          ELSE LogEntry("warn", pdf_files[idx], "No tables found", "None",
                        0, "None"))
    /\ pc' = "loop"
    /\ UNCHANGED <<listing, flavors, pdf_files, idx, date_val, tried,
                   last_exc, calls, tables, used_flavor, csv_files, all_rows,
                   master_df, master_csv, raised, fn_vars>>

\* Lines 78-107: the file's table is built, written and filtered
Build ==
    /\ pc = "build"
    /\ LET df == BuildFrame(tables)
       IN /\ ~(date_val # NoDate /\ InsertRaises(df))
          /\ LET pdf_df == Stamped(df, date_val)
             IN /\ csv_files' = Append(csv_files,
                       [path |-> OutCsv(pdf_files[idx]),
                        fname |-> pdf_files[idx], df |-> pdf_df])
                /\ all_rows' =
                       IF MaskData(pdf_df) # {}
                       THEN Append(all_rows, [fname |-> pdf_files[idx],
                                              df |-> FilterRows(pdf_df)])
                       ELSE all_rows
                /\ logs' = Append(logs,
                       LogEntry("ok", pdf_files[idx], "saved", "None",
                                Len(pdf_df.rows), used_flavor))
    /\ pc' = "loop"
    /\ UNCHANGED <<listing, flavors, pdf_files, idx, date_val, tried,
                   last_exc, calls, tables, used_flavor, master_df,
                   master_csv, raised, fn_vars>>

\* Line 96 raises: nothing catches it, process_pdfs is left
BuildRaises ==
    /\ pc = "build"
    /\ date_val # NoDate
    /\ InsertRaises(BuildFrame(tables))
    /\ raised' = "ValueError"
    /\ pc' = "raised"
    /\ UNCHANGED <<listing, flavors, pdf_files, idx, date_val, tried,
                   last_exc, calls, tables, used_flavor, csv_files, all_rows,
                   logs, master_df, master_csv, fn_vars>>

\* Lines 112-122: the master table
Finish ==
    /\ pc = "loop"
    /\ idx = Len(pdf_files)
    /\ IF all_rows # <<>>
       THEN /\ ~ConcatRaises([i \in 1..Len(all_rows) |-> all_rows[i].df])
            /\ LET m == ConcatFrames([i \in 1..Len(all_rows) |-> all_rows[i].df])
               IN /\ master_df' = <<m>>
                  /\ master_csv' = <<m>>
                  /\ logs' = Append(logs,
                         LogEntry("master", <<>>, "Combined rows", "None",
                                  Len(m.rows), "None"))
       ELSE /\ logs' = Append(logs,
                   LogEntry("master-warn", <<>>, "No rows extracted", "None",
                            0, "None"))
            /\ UNCHANGED <<master_df, master_csv>>
    /\ pc' = "done"
    /\ UNCHANGED <<listing, flavors, pdf_files, idx, date_val, tried,
                   last_exc, calls, tables, used_flavor, csv_files, all_rows,
                   raised, fn_vars>>

\* Line 115 raises: nothing catches it, process_pdfs is left
FinishRaises ==
    /\ pc = "loop"
    /\ idx = Len(pdf_files)
    /\ all_rows # <<>>
    /\ ConcatRaises([i \in 1..Len(all_rows) |-> all_rows[i].df])
    /\ raised' = "InvalidIndexError"
    /\ pc' = "raised"
    /\ UNCHANGED <<listing, flavors, pdf_files, idx, date_val, tried,
                   last_exc, calls, tables, used_flavor, csv_files, all_rows,
                   logs, master_df, master_csv, fn_vars>>

Next ==
    \/ ListDir
    \/ NextFile
    \/ TryFlavor
    \/ NoRows
    \/ Build
    \/ BuildRaises
    \/ Finish
    \/ FinishRaises

Spec == Init /\ [][Next]_vars

----------------------------------------------------------------------------
(* normalize applied to a label, and again to its result                   *)

\* The most pieces a label is put together from
MaxPieces == 5

Pieces == {sLast, sOpen, sRate, sPrvDot, sSpace, <<"\t">>}

Labels ==
    {Join(ps) : ps \in UNION {[1..n -> Pieces] : n \in 0..MaxPieces}}

PipelineIdle ==
    /\ listing = {}
    /\ flavors = <<>>
    /\ pc = "idle"
    /\ pdf_files = <<>>
    /\ idx = 0
    /\ date_val = NoDate
    /\ tried = 0
    /\ last_exc = "None"
    /\ calls = <<>>
    /\ tables = <<>>
    /\ used_flavor = "None"
    /\ csv_files = <<>>
    /\ all_rows = <<>>
    /\ logs = <<>>
    /\ master_df = <<>>
    /\ master_csv = <<>>
    /\ raised = "None"

InitNormalize ==
    /\ PipelineIdle
    /\ fn_pc = "in"
    /\ fn_in \in Labels
    /\ fn_once = <<>>
    /\ fn_twice = <<>>

NormalizeLabel ==
    /\ fn_pc = "in"
    /\ fn_once' = normalize(fn_in)
    /\ fn_pc' = "once"
    /\ UNCHANGED <<fn_in, fn_twice, pipeline_vars>>

NormalizeAgain ==
    /\ fn_pc = "once"
    /\ fn_twice' = normalize(fn_once)
    /\ fn_pc' = "twice"
    /\ UNCHANGED <<fn_in, fn_once, pipeline_vars>>

NextNormalize == NormalizeLabel \/ NormalizeAgain

SpecNormalize == InitNormalize /\ [][NextNormalize]_vars

----------------------------------------------------------------------------
(* Header promotion applied to a cleaned table, and again to its result    *)

\* The most data rows below the header row
MaxDataRows == 2

sXCompany == <<"X", " ">> \o sCompany
sRated    == <<"r","a","t","e","d">>

HeaderRows ==
    {<<sCompany, sRate, sOpen>>, <<sCompanyName, sTurnover, sPrvRate>>}

DataCells == {cA, c1, cEmpty, sXCompany, sRated}

DataRows == [1..3 -> DataCells]

\* A detected sheet: a header row, then data rows
Sheets ==
    {[ncols |-> 3, rows |-> <<h>> \o d] :
        h \in HeaderRows,
        d \in UNION {[1..n -> DataRows] : n \in 1..MaxDataRows}}

InitPromote ==
    /\ PipelineIdle
    /\ fn_pc = "in"
    /\ fn_in \in {CleanFrame(<<t>>) : t \in Sheets}
    /\ fn_once = <<>>
    /\ fn_twice = <<>>

PromoteOnce ==
    /\ fn_pc = "in"
    /\ fn_once' = PromoteHeader(fn_in)
    /\ fn_pc' = "once"
    /\ UNCHANGED <<fn_in, fn_twice, pipeline_vars>>

PromoteAgain ==
    /\ fn_pc = "once"
    /\ fn_twice' = PromoteHeader(fn_once)
    /\ fn_pc' = "twice"
    /\ UNCHANGED <<fn_in, fn_once, pipeline_vars>>

NextPromote == PromoteOnce \/ PromoteAgain

SpecPromote == InitPromote /\ [][NextPromote]_vars

----------------------------------------------------------------------------
(* Properties of normalize and of header promotion                         *)

\* C8: the Column Normalizer is idempotent: normalizing a normalized label
\* gives that label again.
C8_NormalizeIdempotent == fn_pc = "twice" => fn_twice = fn_once

\* C9: header promotion is idempotent: applied again to a table whose header
\* row was promoted, it leaves the column names and the data rows as they
\* are, whatever the data rows hold.
C9_PromoteIdempotent ==
    (fn_pc = "twice" /\ ~fn_once.intcols) => fn_twice = fn_once

----------------------------------------------------------------------------
(* Properties of read_pdf_tables                                           *)

\* The rows of all tables of a result set, counted one by one
RowTotal(tbls) ==
    Cardinality(UNION {{<<k, i>> : i \in 1..Len(tbls[k].rows)} :
                          k \in 1..Len(tbls)})

Raised(c) == c.out.exc # "None"

LastLog == logs[Len(logs)]

\* read_pdf_tables has returned a result set for the current file
Selected == used_flavor # "None"

\* read_pdf_tables has ended for the current file without a result set, and
\* process_pdfs has logged it
Skipped == pc = "loop" /\ idx >= 1 /\ used_flavor = "None"

\* C2: the flavors are tried in list order; the result set and name returned
\* are those of the first flavor whose tables hold more than zero rows in
\* total; every flavor before it raised or returned zero rows, and none
\* after it is called.
C2_FirstFlavorWithRows ==
    /\ Len(calls) <= Len(flavors)
    /\ \A i \in 1..Len(calls) : calls[i].flv = flavors[i]
    /\ \A i \in 1..(Len(calls) - 1) :
           Raised(calls[i]) \/ RowTotal(calls[i].out.tbls) = 0
    /\ Selected =>
           /\ calls # <<>>
           /\ ~Raised(calls[Len(calls)])
           /\ RowTotal(calls[Len(calls)].out.tbls) > 0
           /\ tables = calls[Len(calls)].out.tbls
           /\ used_flavor = flavors[Len(calls)]
    /\ (~Selected /\ calls # <<>> /\ ~Raised(calls[Len(calls)])) =>
           RowTotal(calls[Len(calls)].out.tbls) = 0

\* The second flavor is selected after the first returned a table of no rows
C2_Witness ==
    /\ pc = "build"
    /\ Len(calls) = 2
    /\ calls[1].out.tbls = <<tZero>>
    /\ used_flavor = flavors[2]

\* C3: with a non-empty flavor list, if every flavor raises, the exception
\* of the last flavor tried reaches the caller, which logs "error reading";
\* if every flavor returns and none has rows, nothing is raised, the result
\* is the empty list with no flavor name, and "No tables found" is logged.
C3_AllRaiseOrAllEmpty ==
    (Skipped /\ flavors # <<>>) =>
        /\ Len(calls) = Len(flavors)
        /\ (\A i \in 1..Len(calls) : Raised(calls[i])) =>
               /\ LastLog.level = "warn"
               /\ LastLog.fname = pdf_files[idx]
               /\ LastLog.what = "error reading"
               /\ LastLog.exc = calls[Len(calls)].out.exc
        /\ (\A i \in 1..Len(calls) : ~Raised(calls[i])) =>
               /\ LastLog.level = "warn"
               /\ LastLog.fname = pdf_files[idx]
               /\ LastLog.what = "No tables found"
               /\ tables = <<>>
               /\ raised = "None"

\* Both flavors raised, the second another exception than the first
C3_Witness ==
    /\ Skipped
    /\ Len(calls) = 2
    /\ Raised(calls[1])
    /\ Raised(calls[2])
    /\ calls[1].out.exc # calls[2].out.exc
    /\ LastLog.exc = calls[2].out.exc

\* The calls of the current file that raised
RaisedAt == {i \in 1..Len(calls) : Raised(calls[i])}

\* C10: when no flavor yields rows and at least one raised, the exception of
\* the last flavor that raised is propagated, also when flavors before or
\* after it returned zero rows: "No tables found" is logged only when no
\* flavor raised, "error reading" whenever one raised and none gave rows.
C10_LastRaisedWins ==
    Skipped =>
        /\ LastLog.level = "warn"
        /\ LastLog.fname = pdf_files[idx]
        /\ RaisedAt # {} =>
               /\ LastLog.what = "error reading"
               /\ LastLog.exc =
                      calls[CHOOSE i \in RaisedAt : \A j \in RaisedAt : j <= i].out.exc
        /\ RaisedAt = {} => LastLog.what = "No tables found"

\* The first flavor raised, the second returned no rows: an error is logged
C10_Witness ==
    /\ Skipped
    /\ Len(calls) = 2
    /\ Raised(calls[1])
    /\ ~Raised(calls[2])
    /\ LastLog.what = "error reading"

----------------------------------------------------------------------------
(* Properties of process_pdfs                                              *)

\* The filled cells of a row
Filled(row) == {j \in 1..Len(row) : row[j] \notin {pdNA, npNaN}}

\* Row i of the written table w was appended to the master collection
Appended(w, i) ==
    \E k \in 1..Len(all_rows) :
        /\ all_rows[k].fname = w.fname
        /\ \E j \in 1..Len(all_rows[k].df.rows) :
               /\ all_rows[k].df.index[j] = w.df.index[i]
               /\ all_rows[k].df.rows[j] = w.df.rows[i]

\* C5: a row of a file's table is appended to the master collection if and
\* only if it has at least 3 non-null cells, in a file with a date and in a
\* file without one; the cells counted are those of the table as written,
\* its Date cell among them.  Nothing else is in the master collection.
C5_ThreeCellsQualify ==
    /\ \A n \in 1..Len(csv_files) :
           \A i \in 1..Len(csv_files[n].df.rows) :
               Appended(csv_files[n], i)
                   <=> Cardinality(Filled(csv_files[n].df.rows[i])) >= 3
    /\ \A k \in 1..Len(all_rows) :
           \A j \in 1..Len(all_rows[k].df.rows) :
               \E n \in 1..Len(csv_files) :
                   /\ csv_files[n].fname = all_rows[k].fname
                   /\ \E i \in 1..Len(csv_files[n].df.rows) :
                          /\ csv_files[n].df.index[i] = all_rows[k].df.index[j]
                          /\ csv_files[n].df.rows[i] = all_rows[k].df.rows[j]
                          /\ Cardinality(Filled(all_rows[k].df.rows[j])) >= 3

\* A written table has a row of exactly 2 filled cells that was left out and
\* a row of exactly 3 that was appended
BoundaryRows(w) ==
    /\ \E i \in 1..Len(w.df.rows) :
           Cardinality(Filled(w.df.rows[i])) = 2 /\ ~Appended(w, i)
    /\ \E i \in 1..Len(w.df.rows) :
           Cardinality(Filled(w.df.rows[i])) = 3 /\ Appended(w, i)

\* Both boundary rows occur in a file with a date and in a file without
C5_Witness ==
    /\ \E n \in 1..Len(csv_files) :
           /\ csv_files[n].df.cols # <<>>
           /\ csv_files[n].df.cols[1] = sDate
           /\ BoundaryRows(csv_files[n])
    /\ \E n \in 1..Len(csv_files) :
           /\ csv_files[n].df.cols # <<>>
           /\ csv_files[n].df.cols[1] # sDate
           /\ BoundaryRows(csv_files[n])

\* process_pdfs has ended, by return or by an exception, after a loop over
\* at least one file
RunEnded == pc \in {"done", "raised"} /\ pdf_files # <<>>

\* C1: no failure of one file ends the run: every file is visited and has
\* exactly one ok or warn entry, in sorted order, and the run ends with
\* exactly one master or master-warn entry.
C1_NoFileAbortsRun ==
    /\ pc # "raised"
    /\ (pc = "done" /\ pdf_files # <<>>) =>
           /\ Len(logs) = Len(pdf_files) + 1
           /\ \A i \in 1..Len(pdf_files) :
                  /\ logs[i].fname = pdf_files[i]
                  /\ logs[i].level \in {"ok", "warn"}
           /\ LastLog.level \in {"master", "master-warn"}

\* The current file's result set has rows, and none is left after cleaning
BuiltEmpty ==
    /\ pc = "loop"
    /\ idx >= 1
    /\ Selected
    /\ RowTotal(tables) > 0
    /\ CleanFrame(tables).rows = <<>>

\* C4: a file whose tables have rows but whose merged table is empty after
\* cleaning gets a warn entry and no CSV; no table of zero columns is
\* written.
C4_EmptyTableSkipped ==
    /\ BuiltEmpty =>
           /\ LastLog.level = "warn"
           /\ LastLog.fname = pdf_files[idx]
           /\ \A n \in 1..Len(csv_files) : csv_files[n].fname # pdf_files[idx]
    /\ \A n \in 1..Len(csv_files) : csv_files[n].df.cols # <<>>

\* The qualifying rows of the written tables, file after file, each with the
\* labels of its columns
RECURSIVE Qualifying(_)
Qualifying(ws) ==
    IF ws = <<>> THEN <<>>
    ELSE LET w == Head(ws)
             q == {i \in 1..Len(w.df.rows) :
                      Cardinality(Filled(w.df.rows[i])) >= 3}
         IN [i \in 1..Cardinality(q) |->
                [cols |-> w.df.cols,
                 row |-> Pick(w.df.rows, 1, q)[i]]]
            \o Qualifying(Tail(ws))

\* Row r of the master table m is the qualifying row q: the same cell under
\* each of q's labels, nothing under the others
SameRow(m, r, q) ==
    \A k \in 1..Len(m.cols) :
        IF \E j \in 1..Len(q.cols) : q.cols[j] = m.cols[k]
        THEN \E j \in 1..Len(q.cols) :
                 q.cols[j] = m.cols[k] /\ q.row[j] = m.rows[r][k]
        ELSE m.rows[r][k] \in {pdNA, npNaN}

MasterIsConcatenation ==
    LET q == Qualifying(csv_files)
    IN IF q = <<>> THEN master_df = <<>>
       ELSE /\ master_df # <<>>
            /\ Len(master_df[1].rows) = Len(q)
            /\ \A r \in 1..Len(q) : SameRow(master_df[1], r, q[r])

\* C6: after any run over a non-empty set of files the master table is the
\* concatenation of the qualifying rows of every built file, files in
\* sorted order, rows in detection order, none lost or repeated, none of a
\* skipped file.
C6_MasterIsConcatenation ==
    RunEnded =>
        /\ MasterIsConcatenation
        /\ \A n \in 1..(Len(csv_files) - 1) :
               StrLess(csv_files[n].fname, csv_files[n + 1].fname)

\* C7: at the end of a run over a non-empty set of files, the master CSV is
\* written and a master entry with the number of all qualifying rows is
\* logged if and only if some file contributed a qualifying row; otherwise
\* the last entry is master-warn, no master file is written and no master
\* table is returned.
C7_MasterWrittenIffRows ==
    RunEnded =>
        /\ logs # <<>>
        /\ IF Qualifying(csv_files) # <<>>
           THEN /\ master_csv # <<>>
                /\ LastLog.level = "master"
                /\ LastLog.rows = Len(Qualifying(csv_files))
           ELSE /\ master_csv = <<>>
                /\ master_df = <<>>
                /\ LastLog.level = "master-warn"

\* The same two, of the runs that return
ReturnedRunsOnly ==
    (pc = "done" /\ pdf_files # <<>>) =>
        /\ MasterIsConcatenation
        /\ IF Qualifying(csv_files) # <<>>
           THEN /\ master_csv = master_df
                /\ LastLog.level = "master"
                /\ LastLog.rows = Len(Qualifying(csv_files))
           ELSE /\ master_csv = <<>>
                /\ master_df = <<>>
                /\ LastLog.level = "master-warn"

====
